---- MODULE Spec2Model ----
(***************************************************************************)
(* Model of mce::detect_and_compute (src/src/detect_and_compute.cpp): the  *)
(* adaptive segmentation result, the component selection, the two-phase    *)
(* parallel angle scan with per-thread local bests, the grid validation    *)
(* cascade, the fallback and the result assembly.                          *)
(*                                                                         *)
(* Pixel processing done by OpenCV is represented by its results: a scene  *)
(* fixes, for each angle, what rotate_and_tighten measures and what the    *)
(* validators see in the canonical warp.  All arithmetic of the repository *)
(* code on those results (gates, scores, rounding, clamping, corner        *)
(* ordering, padded crop, sample counts) is computed as the code does.     *)
(*                                                                         *)
(* Numbers: occupancy is in percent, hue_score in ninths (distinct/9),     *)
(* coordinates are in 1/2000 pixel, sines and cosines in 1/1000.           *)
(***************************************************************************)
EXTENDS Integers, Sequences, FiniteSets, TLC

\* ------------------------------------------------------------ bounds
\* most input paths on the command line
MaxInputs == 3
\* most worker threads of a sweep (omp_get_max_threads)
MaxThreads == 2
\* number of states of the abstract thread-local generator used by cv::kmeans
RngMod == 2

\* ------------------------------------------------------------ Params
Smin_floor == 35
Smin_ceil == 80
Vmin_floor == 40
Vmin_ceil == 90
Vmax_floor == 180
Vmax_ceil == 255
\* min_comp_frac = 0.0002 (in 1/10000), max_comp_frac = 0.95 (in percent)
min_comp_frac_e4 == 2
max_comp_frac_pct == 95
coarse_step_deg == 2
coarse_range_deg == 25
fine_step_deg == 1
fine_range_deg == 6
\* min_occupancy = 0.30 (percent), max_aspect = 3.00
min_occupancy_pct == 30
max_aspect == 3
warpSize == 360
\* min_hue_score = 0.25 (percent)
min_hue_score_pct == 25
\* min_line_peak = 0.12, min_peak_sep = 0.12 (in 1/1000); the cap min(0.12, .)
\* that the validators apply to both in smallMode
min_line_peak_e3 == 120
min_peak_sep_e3 == 120
small_peak_cap_e3 == 120
\* early-accept bar of scan: occupancy > 0.78, hue_score > 0.85 (percent)
early_occ_pct == 78
early_hue_pct == 85
\* largest_component: minimum pixel area of a component
min_comp_area == 100
\* validator_kmeans_color: sampling stride (normal, smallMode), minimum samples
kmeans_stride == 6
kmeans_stride_small == 8
kmeans_min_samples == 64
\* grid_checks_cascade: smallMode below this side
small_side == 60
\* strip_barcode_like: rows cut from the top, in percent
strip_cut_pct == 12
\* compute_hue_score: hue_score = min(1, distinct / 9)
hue_norm == 9

\* coordinate scale: 1/2000 pixel, twice the trigonometric scale (1/1000)
SC == 2 * 1000

\* ------------------------------------------------------------ utilities
Max(a, b) == IF a >= b THEN a ELSE b
Min(a, b) == IF a <= b THEN a ELSE b
Abs(a) == IF a >= 0 THEN a ELSE 0 - a
Clamp(v, lo, hi) == IF v < lo THEN lo ELSE IF v > hi THEN hi ELSE v
\* std::round / std::lround of the non-negative quotient n / d
RoundDiv(n, d) == (2 * n + d) \div (2 * d)
CeilDiv(n, d) == (n + d - 1) \div d
\* std::round of n / d for n of either sign (halves away from zero)
RoundDivS(n, d) == IF n >= 0 THEN RoundDiv(n, d) ELSE 0 - RoundDiv(0 - n, d)

SinTable ==
    <<    0,   17,   35,   52,   70,   87,  105,  122,  139,  156,  174,  191,  208,
        225,  242,  259,  276,  292,  309,  326,  342,  358,  375,  391,  407,  423,
        438,  454,  469,  485,  500,  515,  530,  545,  559,  574,  588,  602,  616,
        629,  643,  656,  669,  682,  695,  707,  719,  731,  743,  755,  766,  777,
        788,  799,  809,  819,  829,  839,  848,  857,  866,  875,  883,  891,  899,
        906,  914,  921,  927,  934,  940,  946,  951,  956,  961,  966,  970,  974,
        978,  982,  985,  988,  990,  993,  995,  996,  998,  999,  999, 1000, 1000 >>

\* 1000 * sin(deg), deg any integer number of degrees
Sin1000(deg) ==
    LET a == deg % 360
    IN  IF a <= 90 THEN SinTable[a + 1]
        ELSE IF a <= 180 THEN SinTable[180 - a + 1]
        ELSE IF a <= 270 THEN 0 - SinTable[a - 180 + 1]
        ELSE 0 - SinTable[360 - a + 1]
Cos1000(deg) == Sin1000(deg + 90)

\* ------------------------------------------------------------ geometry
\* cv::RotatedRect: centre (scaled), size in pixels, angle in degrees
Rect(cx, cy, w, h, angle) == [cx |-> cx, cy |-> cy, w |-> w, h |-> h, angle |-> angle]
ZeroRect == Rect(0, 0, 0, 0, 0)

\* cv::RotatedRect::points: a = sin/2, b = cos/2,
\* pt0 = (cx - a h - b w, cy + b h - a w), pt1 = (cx + a h - b w, cy - b h - a w),
\* pt2 = 2c - pt0, pt3 = 2c - pt1
RectPoints(r) ==
    LET a == Sin1000(r.angle)
        b == Cos1000(r.angle)
        p0 == << r.cx - a * r.h - b * r.w, r.cy + b * r.h - a * r.w >>
        p1 == << r.cx + a * r.h - b * r.w, r.cy - b * r.h - a * r.w >>
    IN  << p0, p1, << 2 * r.cx - p0[1], 2 * r.cy - p0[2] >>,
                   << 2 * r.cx - p1[1], 2 * r.cy - p1[2] >> >>

sumf(p) == p[1] + p[2]
diff(p) == p[1] - p[2]

\* std::min_element / std::max_element: the first extremal element
FirstMinIdx(k) ==
    CHOOSE i \in 1..Len(k) :
        /\ \A j \in 1..Len(k) : k[i] <= k[j]
        /\ \A j \in 1..(i - 1) : k[j] > k[i]
FirstMaxIdx(k) ==
    CHOOSE i \in 1..Len(k) :
        /\ \A j \in 1..Len(k) : k[i] >= k[j]
        /\ \A j \in 1..(i - 1) : k[j] < k[i]

\* (mutant) the corners left in the order RotatedRect::points gives them
order_quad_as_constructed(in) == in

\* order_quad_tl_tr_br_bl, returned as <<TL, TR, BR, BL>>
order_quad_tl_tr_br_bl(in) ==
    LET s == [i \in 1..4 |-> sumf(in[i])]
        d == [i \in 1..4 |-> diff(in[i])]
    IN  << in[FirstMinIdx(s)], in[FirstMaxIdx(d)], in[FirstMaxIdx(s)], in[FirstMinIdx(d)] >>

\* cv::boundingRect of float points: floor of the extremes, width = xmax - xmin + 1
BoundingRect(pts) ==
    LET xs == {pts[i][1] : i \in 1..Len(pts)}
        ys == {pts[i][2] : i \in 1..Len(pts)}
        xmin == (CHOOSE v \in xs : \A u \in xs : v <= u) \div SC
        xmax == (CHOOSE v \in xs : \A u \in xs : v >= u) \div SC
        ymin == (CHOOSE v \in ys : \A u \in ys : v <= u) \div SC
        ymax == (CHOOSE v \in ys : \A u \in ys : v >= u) \div SC
    IN  [x |-> xmin, y |-> ymin, width |-> xmax - xmin + 1, height |-> ymax - ymin + 1]

\* the padded crop rectangle of evaluate_angle and of the fallback
PaddedRoi(src, cols, rows) ==
    LET full == BoundingRect(src)
        pad == Max(2, RoundDiv(Max(full.width, full.height), 10))
        x == Max(0, full.x - pad)
        y == Max(0, full.y - pad)
    IN  [x |-> x, y |-> y,
         width |-> Min(cols - x, full.width + 2 * pad),
         height |-> Min(rows - y, full.height + 2 * pad)]

\* cv::Mat::operator()(Rect) accepts the rectangle (else it raises cv::Exception)
RoiInside(roi, cols, rows) ==
    /\ 0 <= roi.x /\ 0 <= roi.width /\ roi.x + roi.width <= cols
    /\ 0 <= roi.y /\ 0 <= roi.height /\ roi.y + roi.height <= rows
RoiValid(roi, cols, rows) ==
    RoiInside(roi, cols, rows) /\ roi.width > 0 /\ roi.height > 0

\* ------------------------------------------------------------ canonical warp
\* What the validators measure on a warped square: the number of populated hue
\* bins, whether the bright low-saturation top strip is present, and the verdict
\* of each validator's image test.  km is "T", "F" or "seed": the k-means
\* labelling either settles the same way for every initial centre choice or
\* depends on the centres drawn from the generator.
Warp(distinct, strip, v1, v2, v3, km, v5) ==
    [rows |-> warpSize, cols |-> warpSize, distinct |-> distinct, strip |-> strip,
     v1 |-> v1, v2 |-> v2, v3 |-> v3, km |-> km, v5 |-> v5]

\* compute_hue_score: min(1, distinct / 9), in ninths
compute_hue_score(img) == Min(hue_norm, img.distinct)

\* strip_barcode_like: cut = max(1, round(0.12 * rows)) rows removed from the top
strip_barcode_like(img) ==
    IF img.strip
    THEN LET cut == Max(1, RoundDiv(strip_cut_pct * img.rows, 100))
         IN  [img EXCEPT !.rows = img.rows - cut]
    ELSE img

\* the thresholds of the peak tests (in 1/1000): the prominence and the
\* separation of validator_linepeaks_CLAHE, and the minimum separation of the two
\* cuts of validator_maxgap_2cuts on a profile of n entries (in entries)
LinePeakProm(smallMode) ==
    IF smallMode THEN Min(small_peak_cap_e3, min_line_peak_e3) ELSE min_line_peak_e3
LinePeakSep(smallMode) ==
    IF smallMode THEN Min(small_peak_cap_e3, min_peak_sep_e3) ELSE min_peak_sep_e3
MaxGapMinSep(smallMode, n) == RoundDiv(LinePeakSep(smallMode) * n, 1000)

validator_linepeaks_CLAHE(W, smallMode) == W.v1
validator_colorgrad_Sobel(W, smallMode) == W.v2
validator_maxgap_2cuts(W, smallMode) == W.v3
validator_template_corr(W, smallMode) == W.v5

\* cv::kmeans with KMEANS_PP_CENTERS draws its initial centres from the
\* thread-local generator cv::theRNG(), whose state g is carried from call to call
KmeansLabelsOk(W, g) ==
    CASE W.km = "T" -> TRUE
      [] W.km = "F" -> FALSE
      [] OTHER -> g = 0
RngNext(g) == (g + 1) % RngMod

\* validator_kmeans_color: the samples matrix has nsamp rows, the filling loop
\* writes one row per (y, x) with y = 0, stride, .. < rows and x likewise.
\* Result: the verdict, whether the generator was used, whether rows were written
\* past the end of the matrix.
KmeansStride(smallMode) == IF smallMode THEN kmeans_stride_small ELSE kmeans_stride
KmeansNsamp(rows, cols, stride) == (rows \div stride) * (cols \div stride)
KmeansWritten(rows, cols, stride) == CeilDiv(rows, stride) * CeilDiv(cols, stride)
validator_kmeans_color(W, smallMode, g) ==
    LET stride == KmeansStride(smallMode)
        nsamp == KmeansNsamp(W.rows, W.cols, stride)
    IN  IF nsamp < kmeans_min_samples
        THEN [ok |-> FALSE, drew |-> FALSE, overrun |-> FALSE]
        ELSE [ok |-> KmeansLabelsOk(W, g), drew |-> TRUE,
              overrun |-> KmeansWritten(W.rows, W.cols, stride) > nsamp]

\* the verdict of validator k of the cascade
ValidatorAccepts(k, W, smallMode, g) ==
    CASE k = 1 -> validator_linepeaks_CLAHE(W, smallMode)
      [] k = 2 -> validator_colorgrad_Sobel(W, smallMode)
      [] k = 3 -> validator_maxgap_2cuts(W, smallMode)
      [] k = 4 -> validator_kmeans_color(W, smallMode, g).ok
      [] OTHER -> validator_template_corr(W, smallMode)

\* (mutant) k-means tried before max-gap two-cuts
CascadeOrderSwapped == << 1, 2, 4, 3, 5 >>

\* the order of the validators in grid_checks_cascade: line-peaks,
\* colour-gradient, max-gap two-cuts, k-means, template correlation
CascadeOrder == << 1, 2, 3, 4, 5 >>

\* the chain of grid_checks_cascade from the k-th validator of the order on:
\* each is run, the first that accepts ends the chain (return), the last one's
\* verdict is taken as it is.  The result lists the validators run, with their
\* verdicts.
Run(k, ok) == [v |-> k, ok |-> ok]
RECURSIVE CascadeFrom(_, _, _, _, _)
CascadeFrom(order, k, W, smallMode, g) ==
    IF k > Len(order) THEN << >>
    ELSE IF ValidatorAccepts(order[k], W, smallMode, g) \/ k = Len(order)
    THEN << Run(order[k], ValidatorAccepts(order[k], W, smallMode, g)) >>
    ELSE << Run(order[k], FALSE) >> \o CascadeFrom(order, k + 1, W, smallMode, g)

\* grid_checks_cascade on the stripped square W: line_ok is the verdict of the
\* last validator run; drew and overrun tell whether validator 4 ran and used the
\* generator, and whether it wrote outside its sample matrix.
CascadeResult(hue, W, smallMode, g, invoked) ==
    [hue |-> hue, line_ok |-> invoked[Len(invoked)].ok, invoked |-> invoked,
     smallMode |-> smallMode,
     drew |-> (\E k \in 1..Len(invoked) : invoked[k].v = 4)
                 /\ validator_kmeans_color(W, smallMode, g).drew,
     overrun |-> (\E k \in 1..Len(invoked) : invoked[k].v = 4)
                    /\ validator_kmeans_color(W, smallMode, g).overrun]
CascadeOn(hue, W, smallMode, g) ==
    CascadeResult(hue, W, smallMode, g, CascadeFrom(CascadeOrder, 1, W, smallMode, g))
SmallMode(W) == Min(W.rows, W.cols) < small_side
grid_checks_cascade(warped, g) ==
    CascadeOn(compute_hue_score(warped), strip_barcode_like(warped),
              SmallMode(strip_barcode_like(warped)), g)

\* (mutant) the gate without its line_ok term
GridRejectedHueOnly(gcr) == gcr.hue * 100 < min_hue_score_pct * hue_norm

\* gcr.hue_score < P.min_hue_score || !gcr.line_ok
GridRejected(gcr) == gcr.hue * 100 < min_hue_score_pct * hue_norm \/ ~gcr.line_ok

\* ------------------------------------------------------------ scenes
\* A scene is one input image, given by what OpenCV computes from it: its size,
\* the percentiles of its S and V channels, its regions of one colour, which
\* the colour mask keeps or drops as connected components (area, bounding
\* width and height, minimum-area rectangle, colour as H, S, V), what
\* rotate_and_tighten finds at each angle (prof) and what the warp of the base
\* rectangle shows (fb).
\* a component is a region of one colour; unless tinted, a saturated green
Comp(area, w, h, rr) ==
    [area |-> area, w |-> w, h |-> h, rr |-> rr, hsv |-> << 60, 200, 150 >>]
Tinted(c, hue, sat, val) == [c EXCEPT !.hsv = << hue, sat, val >>]
\* the region that is the whole image
Whole(cols, rows) ==
    Comp(cols * rows, cols, rows, Rect((cols * SC) \div 2, (rows * SC) \div 2, cols, rows, 90))
Scene(cols, rows, pS85, pV60, pV99, comps, prof, fb) ==
    [empty |-> FALSE, cols |-> cols, rows |-> rows, pS85 |-> pS85, pV60 |-> pV60,
     pV99 |-> pV99, comps |-> comps, prof |-> prof, fb |-> fb]
EmptyScene ==
    [empty |-> TRUE, cols |-> 0, rows |-> 0, pS85 |-> 0, pV60 |-> 0, pV99 |-> 0,
     comps |-> << >>, prof |-> "none", fb |-> "nogrid"]

\* the warp kinds the scenes use
WarpOf(kind) ==
    CASE kind = "grid"    -> Warp(9, FALSE, TRUE, FALSE, FALSE, "F", FALSE)
      [] kind = "grid2"   -> Warp(6, FALSE, FALSE, TRUE, FALSE, "F", FALSE)
      [] kind = "grid3"   -> Warp(5, FALSE, FALSE, FALSE, TRUE, "F", FALSE)
      [] kind = "grid4"   -> Warp(7, FALSE, FALSE, FALSE, FALSE, "T", FALSE)
      [] kind = "grid5"   -> Warp(12, FALSE, FALSE, FALSE, FALSE, "F", TRUE)
      [] kind = "grid8"   -> Warp(8, FALSE, TRUE, FALSE, FALSE, "F", FALSE)
      [] kind = "pale"    -> Warp(3, FALSE, TRUE, FALSE, FALSE, "F", FALSE)
      [] kind = "huelow"  -> Warp(2, FALSE, TRUE, TRUE, TRUE, "T", TRUE)
      [] kind = "grey"    -> Warp(0, FALSE, TRUE, FALSE, FALSE, "F", TRUE)
      [] kind = "solid"   -> Warp(1, FALSE, FALSE, FALSE, FALSE, "F", FALSE)
      [] kind = "seed"    -> Warp(8, FALSE, FALSE, FALSE, FALSE, "seed", FALSE)
      [] kind = "strip1"  -> Warp(9, TRUE, TRUE, FALSE, FALSE, "F", FALSE)
      [] kind = "strip4"  -> Warp(9, TRUE, FALSE, FALSE, FALSE, "T", FALSE)
      [] kind = "strip5"  -> Warp(9, TRUE, FALSE, FALSE, FALSE, "F", TRUE)
      [] OTHER            -> Warp(9, FALSE, FALSE, FALSE, FALSE, "F", FALSE)

\* What rotate_and_tighten measures at d degrees from the base angle: whether the
\* rotated crop holds a contour, the size of the largest contour's bounding box,
\* the occupancy of the crop (percent), the offset of the tight centre from the
\* base centre, and the kind of the warp of the tight rectangle.
Meas(cnt, tw, th, occ, dx, dy, kind) ==
    [cnt |-> cnt, tw |-> tw, th |-> th, occ |-> occ, dx |-> dx, dy |-> dy, kind |-> kind]
Outcome(prof, d, rr) ==
    LET a == Abs(d)
        w == Max(1, rr.w - a \div 2)
        h == Max(1, rr.h - a \div 2)
    IN  CASE prof = "sharp"  -> Meas(TRUE, w, h, Max(0, 96 - 6 * a), 0, 0,
                                     IF a <= 4 THEN "grid" ELSE "nogrid")
          [] prof = "soft"   -> Meas(TRUE, w, h, Max(0, 70 - 3 * a), 500 * d, 0, "grid2")
          [] prof = "flat"   -> Meas(TRUE, rr.w, rr.h, 50, 0, 0, "grid3")
          [] prof = "mixed"  -> IF d % 2 = 0
                                THEN Meas(TRUE, w, h, 60, 0, 0, "grid")
                                ELSE Meas(TRUE, w, h, 90, 0, 0, "pale")
          [] prof = "waves"  -> Meas(TRUE, w, h, 35 + 5 * ((d + 31) % 9), 0, 250 * d,
                                     IF d % 3 = 0 THEN "grid5" ELSE "grid4")
          [] prof = "late"   -> Meas(a <= 20, w, h, 40 + a, 0, 0,
                                     IF a % 5 = 0 THEN "grid2" ELSE "nogrid")
          [] prof = "decoy"  -> IF d = 1 THEN Meas(TRUE, w, h, 79, 0, 0, "grid8")
                                ELSE Meas(TRUE, w, h, 95, 0, 0, "grid2")
          [] prof = "lowocc" -> Meas(TRUE, w, h, 29, 0, 0, "grid")
          [] prof = "thin"   -> Meas(TRUE, rr.w, Max(1, rr.w \div 4), 80, 0, 0, "grid")
          [] prof = "grey"   -> Meas(TRUE, w, h, 90, 0, 0, "grey")
          [] prof = "solid"  -> Meas(TRUE, w, h, 100, 0, 0, "solid")
          [] prof = "huelow" -> Meas(TRUE, w, h, 90, 0, 0, "huelow")
          [] prof = "nogrid" -> Meas(TRUE, w, h, 90, 0, 0, "nogrid")
          [] prof = "seed"   -> Meas(d >= -3 /\ d <= 2, w, h, 80 - a, 0, 0, "seed")
          [] prof = "strip1" -> Meas(a <= 2, w, h, 85, 0, 0, "strip1")
          [] prof = "strip4" -> Meas(a <= 1, w, h, 85, 0, 0, "strip4")
          [] prof = "strip5" -> Meas(a <= 1, w, h, 85, 0, 0, "strip5")
          [] OTHER           -> Meas(FALSE, 0, 0, 0, 0, 0, "nogrid")

\* the marker's component in an 80 x 60 image, in three placements
MidBox == Comp(1200, 40, 30, Rect(40 * SC, 30 * SC, 40, 30, 90))
Tilted == Comp(900, 42, 42, Rect(38 * SC, 31 * SC, 30, 30, 45))
Corner == Comp(700, 30, 30, Rect(12 * SC, 11 * SC, 36, 20, 30))
Long   == Comp(600, 40, 40, Rect(40 * SC, 30 * SC, 45, 15, 45))
Speck  == Comp(60, 10, 6, Rect(5 * SC, 5 * SC, 10, 6, 90))
Flood  == Comp(4600, 80, 60, Rect(40 * SC, 30 * SC, 80, 60, 90))
Dot    == Comp(100, 10, 10, Rect(70 * SC, 50 * SC, 10, 10, 90))
Dot2   == Comp(100, 10, 10, Rect(20 * SC, 20 * SC, 10, 10, 90))
\* three filled bars of exact score 25
Bar20  == Comp(100, 5, 20, Rect(10 * SC, 30 * SC, 5, 20, 90))
Bar23  == Comp(115, 5, 23, Rect(30 * SC, 30 * SC, 5, 23, 90))
Bar26  == Comp(130, 5, 26, Rect(50 * SC, 30 * SC, 5, 26, 90))

Scenes ==
    << EmptyScene,
       Scene(80, 60, 20, 128, 250, << >>, "none", "nogrid"),
       Scene(80, 60, 60, 50, 200, << Speck >>, "none", "nogrid"),
       Scene(80, 60, 200, 30, 120, << Flood >>, "sharp", "grid"),
       Scene(80, 60, 90, 70, 240, << Speck, MidBox >>, "sharp", "grid"),
       Scene(80, 60, 90, 70, 240, << Tilted, Speck >>, "soft", "grid"),
       Scene(80, 60, 90, 70, 240, << MidBox >>, "flat", "nogrid"),
       Scene(80, 60, 90, 70, 240, << Corner >>, "mixed", "grid"),
       Scene(80, 60, 90, 70, 240, << Long >>, "waves", "grid"),
       Scene(80, 60, 90, 70, 240, << Tilted >>, "late", "grid"),
       Scene(80, 60, 90, 70, 240, << MidBox >>, "lowocc", "grid"),
       Scene(80, 60, 90, 70, 240, << Corner >>, "thin", "grid2"),
       Scene(80, 60, 10, 70, 240, << MidBox >>, "grey", "grey"),
       Scene(80, 60, 90, 70, 240, << MidBox >>, "huelow", "huelow"),
       Scene(80, 60, 90, 70, 240, << Tilted >>, "nogrid", "nogrid"),
       Scene(80, 60, 90, 70, 240, << Long >>, "none", "grid5"),
       Scene(80, 60, 90, 70, 240, << MidBox >>, "seed", "nogrid"),
       Scene(80, 60, 90, 70, 240, << Corner >>, "none", "seed"),
       Scene(80, 60, 90, 70, 240, << MidBox >>, "strip1", "grid"),
       Scene(80, 60, 90, 70, 240, << MidBox >>, "strip4", "nogrid"),
       Scene(80, 60, 90, 70, 240, << Tilted >>, "strip5", "strip4"),
       Scene(80, 60, 90, 70, 240, << Flood, Dot >>, "sharp", "grid"),
       Scene(80, 60, 90, 70, 240, << MidBox >>, "decoy", "grid"),
       Scene(80, 60, 0, 128, 128, << Tinted(Whole(80, 60), 0, 0, 128) >>, "solid", "solid"),
       Scene(120, 90, 0, 200, 200, << Tinted(Whole(120, 90), 0, 0, 200) >>, "solid", "solid"),
       Scene(20, 20, 255, 255, 255, << Tinted(Whole(20, 20), 0, 255, 255) >>, "solid", "solid"),
       Scene(80, 60, 0, 70, 240, << Tinted(MidBox, 0, 0, 150) >>, "grey", "grey"),
       Scene(80, 60, 90, 70, 240, << Bar20, Bar23, Speck >>, "none", "nogrid"),
       Scene(80, 60, 90, 70, 240, << Bar26, Bar20 >>, "thin", "grid"),
       Scene(80, 60, 90, 70, 240, << Speck, Dot, Dot2 >>, "none", "grid"),
       Scene(1000, 600, 90, 70, 240, << Dot >>, "sharp", "grid") >>

\* ------------------------------------------------------------ state
VARIABLES
    scene,      \* index in Scenes of the image of this run (both calls)
    saveDebug,  \* the saveDebug argument
    nthreads,   \* size of locals: omp_get_max_threads(), 1 without OpenMP
    rng,        \* state of each thread's cv::theRNG() (equal at thread creation)
    call,       \* 1 or 2: the call in progress
    prevOut,    \* the result of call 1 once call 2 has started
    pc,         \* "start", "select", "scan", "fallback", "emit", "done", "fault"
    phase,      \* "coarse" or "fine"
    out,        \* DetectOutput
    ret,        \* the value returned ("none" until the call returns)
    rr,         \* the base rectangle (minAreaRect of the selected component)
    best,       \* the global best
    earlyStop,
    locals,     \* the per-thread local bests of the sweep in progress
    pos,        \* iterations each thread has finished in the sweep in progress
    trace,      \* history: what the call has done so far
    cli,        \* the command-line tool: its inputs, position, output and exit code
    csv         \* process_and_report: its images, position and the rows written

core == << scene, saveDebug, nthreads, rng, call, prevOut, pc, phase, out, ret, rr,
           best, earlyStop, locals, pos, trace >>
vars == << core, cli, csv >>

Img == Scenes[scene]
Threads == 0..(nthreads - 1)

\* struct Best, value-initialised; via is history: the validator that accepted
Best0 ==
    [angle |-> 0, cov |-> 0, occ |-> 0, hue |-> 0, line_ok |-> FALSE,
     tight |-> ZeroRect, via |-> 0]

\* (mutant) coverage_percent value-initialised to 0
DetectOutputZeroCoverage ==
    [found |-> FALSE, quad |-> << >>, coverage_percent |-> 0, best_angle_deg |-> 0,
     occupancy |-> 0, hue_score |-> 0, line_ok |-> FALSE, Smin |-> 0, Vmin |-> 0,
     Vmax |-> 255, debug_quad_path |-> FALSE, debug_warp_path |-> FALSE,
     debug_mask_path |-> FALSE, debug_crop_path |-> FALSE, debug_clip_path |-> FALSE]

\* DetectOutput{}; a debug path is modelled by whether it is set
DetectOutput0 ==
    [found |-> FALSE, quad |-> << >>, coverage_percent |-> -1, best_angle_deg |-> 0,
     occupancy |-> 0, hue_score |-> 0, line_ok |-> FALSE, Smin |-> 0, Vmin |-> 0,
     Vmax |-> 255, debug_quad_path |-> FALSE, debug_warp_path |-> FALSE,
     debug_mask_path |-> FALSE, debug_crop_path |-> FALSE, debug_clip_path |-> FALSE]

\* history of a call: the outcome class it ended in, the label that
\* largest_component chose (0: it returned false), the fallback attempts, the
\* sweeps that ended (each with the best before, the candidates and the best
\* after), the candidates of the sweep in progress, the last cascade run (none:
\* no validator invoked) and the last padded crop computed (none: not cropped)
NoGcr ==
    [hue |-> 0, line_ok |-> FALSE, invoked |-> << >>, smallMode |-> FALSE,
     drew |-> FALSE, overrun |-> FALSE]
NoRoi == [x |-> 0, y |-> 0, width |-> 0, height |-> 0]
Trace0 ==
    [outcome |-> "none", comp |-> 0, fallbacks |-> 0, sweeps |-> << >>, cands |-> << >>,
     gcr |-> NoGcr, fault |-> "none", cropped |-> FALSE, roi |-> NoRoi]

\* ------------------------------------------------------------ segmentation
\* (mutant) the saturation threshold without the margin of 10 under the percentile
AdaptiveSminNoMargin(sc) == Clamp(sc.pS85, Smin_floor, Smin_ceil)

\* build_color_mask_adaptive: the three adaptive thresholds
AdaptiveSmin(sc) == Clamp(sc.pS85 - 10, Smin_floor, Smin_ceil)
AdaptiveVmin(sc) == Clamp(sc.pV60, Vmin_floor, Vmin_ceil)
AdaptiveVmax(sc) == Clamp(sc.pV99, Vmax_floor, Vmax_ceil)

\* the hue bands: red (wrapping), yellow, green, cyan, blue, magenta
InBand(hue) ==
    \/ hue \in 0..10 \/ hue \in 170..180 \/ hue \in 20..35 \/ hue \in 40..85
    \/ hue \in 86..100 \/ hue \in 101..130 \/ hue \in 131..169

\* (mutant) cv::inRange without the lower bound on S
InRangeAnyS(hsv, Smin, Vmin, Vmax) ==
    InBand(hsv[1]) /\ hsv[2] <= 255 /\ hsv[3] >= Vmin /\ hsv[3] <= Vmax

\* cv::inRange(hsv, (h1, Smin, Vmin), (h2, 255, Vmax)) over the bands
InRangeHSV(hsv, Smin, Vmin, Vmax) ==
    InBand(hsv[1]) /\ hsv[2] >= Smin /\ hsv[2] <= 255 /\ hsv[3] >= Vmin /\ hsv[3] <= Vmax

\* build_color_mask_adaptive: the regions of the image that the mask keeps
RECURSIVE KeepInRange(_, _, _, _)
KeepInRange(comps, Smin, Vmin, Vmax) ==
    IF comps = << >> THEN << >>
    ELSE (IF InRangeHSV(Head(comps).hsv, Smin, Vmin, Vmax) THEN << Head(comps) >> ELSE << >>)
            \o KeepInRange(Tail(comps), Smin, Vmin, Vmax)
build_color_mask_adaptive(sc) ==
    KeepInRange(sc.comps, AdaptiveSmin(sc), AdaptiveVmin(sc), AdaptiveVmax(sc))

\* ------------------------------------------------------------ selection
\* The score of a component is computed in double precision, in three rounded
\* steps: ar = max(w,h) / max(1, min(w,h)), compact = 1.0 / ar, score = area *
\* compact.  ScoreNum(a, b) is the exact score of a times max(b.w, b.h) *
\* max(a.w, a.h), so that exact scores compare by ScoreNum(a, b) and ScoreNum(b, a);
\* ScoreUlps is the error of the computed score, in units in the last place,
\* tabulated for the components of Scenes (the others are computed exactly).
\* Exact scores that differ are far enough apart for the rounding not to matter.
ScoreNum(a, b) == a.area * Max(1, Min(a.w, a.h)) * Max(b.w, b.h)
ScoreUlps(c) ==
    CASE << c.area, c.w, c.h >> = << 115, 5, 23 >> -> 1
      [] << c.area, c.w, c.h >> = << 130, 5, 26 >> -> -1
      [] OTHER -> 0

\* (mutant) a component of equal score replaces the best
CompScoreGreaterOrEqual(a, b) ==
    \/ ScoreNum(a, b) > ScoreNum(b, a)
    \/ ScoreNum(a, b) = ScoreNum(b, a) /\ ScoreUlps(a) >= ScoreUlps(b)

\* score > bestScore
CompScoreGreater(a, b) ==
    \/ ScoreNum(a, b) > ScoreNum(b, a)
    \/ ScoreNum(a, b) = ScoreNum(b, a) /\ ScoreUlps(a) > ScoreUlps(b)

\* largest_component: the label of the chosen component, 0 when it returns false
RECURSIVE ComponentLoop(_, _, _)
ComponentLoop(comps, i, bestIdx) ==
    IF i > Len(comps) THEN bestIdx
    ELSE IF comps[i].area < min_comp_area THEN ComponentLoop(comps, i + 1, bestIdx)
    ELSE IF bestIdx = 0 \/ CompScoreGreater(comps[i], comps[bestIdx])
         THEN ComponentLoop(comps, i + 1, i)
         ELSE ComponentLoop(comps, i + 1, bestIdx)
largest_component(comps) == ComponentLoop(comps, 1, 0)

\* (mutant) the test without its upper limit
CompFracTooSmall(area, cols, rows) == area * 10000 < min_comp_frac_e4 * Max(1, rows * cols)

\* compFrac < P.min_comp_frac || compFrac > P.max_comp_frac
CompFracOutOfRange(area, cols, rows) ==
    LET total == Max(1, rows * cols)
    IN  area * 10000 < min_comp_frac_e4 * total \/ area * 100 > max_comp_frac_pct * total

\* ------------------------------------------------------------ angle evaluation
\* rotate_and_tighten: the crop of the rotated mask is RW x RH around the base
\* centre, clamped to the image (CropSide: x1 - x0 with x0 = clamp(round(c -
\* RW / 2), 0, limit - 1), x1 = clamp(x0 + RW, 0, limit)); the tight rectangle is
\* the bounding box of the largest contour in the crop, given the angle it was
\* found at.
CropSide(c, side, limit) ==
    LET lo == Clamp(RoundDivS(c - (SC \div 2) * Max(1, side), SC), 0, limit - 1)
    IN  Clamp(lo + Max(1, side), 0, limit) - lo
TightFromCrop(r, ang, m, roiw, roih) ==
    IF roiw <= 0 \/ roih <= 0 THEN [ok |-> FALSE]
    ELSE IF ~m.cnt THEN [ok |-> FALSE]
    ELSE [ok |-> TRUE, occupancy |-> m.occ, kind |-> m.kind,
          tightRect |-> Rect(r.cx + m.dx, r.cy + m.dy, Min(m.tw, roiw), Min(m.th, roih), ang)]
rotate_and_tighten(sc, r, ang) ==
    TightFromCrop(r, ang, Outcome(sc.prof, ang - r.angle, r),
                  CropSide(r.cx, r.w, sc.cols), CropSide(r.cy, r.h, sc.rows))

\* occ * (0.5 + 0.5 * hue), times 18
Score(occ, hue) == occ * (hue_norm + hue)

\* the assignment of an accepted candidate to a Best
Candidate(ang, cov, occ, gcr, tight) ==
    [angle |-> ang, cov |-> cov, occ |-> occ, hue |-> gcr.hue, line_ok |-> gcr.line_ok,
     tight |-> tight,
     via |-> IF gcr.line_ok THEN gcr.invoked[Len(gcr.invoked)].v ELSE 0]

\* evaluate_angle from the padded crop on: the crop, the warp, the cascade, the
\* hue and line gate and the score
ValidateTight(sc, ang, g, tight, occ, gcr) ==
    LET fullRoi == PaddedRoi(order_quad_tl_tr_br_bl(RectPoints(tight)), sc.cols, sc.rows)
    IN  IF ~RoiValid(fullRoi, sc.cols, sc.rows)
        THEN [stage |-> "crop", score |-> 0, ran |-> FALSE, cropped |-> TRUE,
              roi |-> fullRoi]
        ELSE [stage |-> IF GridRejected(gcr) THEN "rejected" ELSE "accepted",
              score |-> Score(occ, gcr.hue), ran |-> TRUE, cropped |-> TRUE,
              gcr |-> gcr, roi |-> fullRoi,
              cand |-> Candidate(ang, 100 * tight.w * tight.h, occ, gcr, tight)]

\* evaluate_angle after rotate_and_tighten returned rt: the size, occupancy and
\* aspect gates
GateTight(sc, ang, g, rt) ==
    IF ~rt.ok THEN [stage |-> "norect", score |-> 0, ran |-> FALSE, cropped |-> FALSE]
    ELSE IF rt.tightRect.w <= 0 \/ rt.tightRect.h <= 0
    THEN [stage |-> "size", score |-> 0, ran |-> FALSE, cropped |-> FALSE]
    ELSE IF \/ rt.occupancy < min_occupancy_pct
            \/ Max(rt.tightRect.w, rt.tightRect.h)
                   > max_aspect * Max(1, Min(rt.tightRect.w, rt.tightRect.h))
    THEN [stage |-> "gate", score |-> 0, ran |-> FALSE, cropped |-> FALSE]
    ELSE ValidateTight(sc, ang, g, rt.tightRect, rt.occupancy,
                       grid_checks_cascade(WarpOf(rt.kind), g))

\* evaluate_angle(ang, localBest) up to the score, run by a thread whose
\* generator is in state g.  stage tells where the evaluation ended, cand is the
\* Best the candidate would be stored as, cov being 100 * area, to be divided by
\* the image area.
AngleCandidate(sc, r, ang, g) == GateTight(sc, ang, g, rotate_and_tighten(sc, r, ang))

\* the comparison of evaluate_angle: the candidate replaces the local best
BeatsLocal(score, bestScore) == score > bestScore

\* the end of evaluate_angle: the local best after candidate c
evaluate_angle(c, localBest) ==
    IF c.stage = "accepted" /\ BeatsLocal(c.score, Score(localBest.occ, localBest.hue))
    THEN c.cand
    ELSE localBest

\* ------------------------------------------------------------ scan
\* (mutant) the loop ended by d < rangeDeg
DeltasBelowRange(stepDeg, rangeDeg) ==
    [i \in 1..((2 * rangeDeg - 1) \div stepDeg + 1) |-> (i - 1) * stepDeg - rangeDeg]

\* the deltas of scan(stepDeg, rangeDeg): -range, -range + step, .. <= range
Deltas(stepDeg, rangeDeg) ==
    [i \in 1..((2 * rangeDeg) \div stepDeg + 1) |-> (i - 1) * stepDeg - rangeDeg]
PhaseDeltas(ph) ==
    IF ph = "coarse" THEN Deltas(coarse_step_deg, coarse_range_deg)
    ELSE Deltas(fine_step_deg, fine_range_deg)

\* schedule(static): thread t runs one contiguous block of the n iterations, the
\* blocks in thread order, the first n % T threads one iteration longer
ChunkSize(n, T, t) == n \div T + (IF t < n % T THEN 1 ELSE 0)
ChunkStart(n, T, t) == t * (n \div T) + Min(t, n % T)

\* the centre of the sweep: best.cov > 0.0 ? best.angle : baseAngle
SweepCenter(b, baseAngle) == IF b.cov > 0 THEN b.angle ELSE baseAngle

\* (mutant) any thread that holds a candidate overwrites the global best
MergeTakesAnyCandidate(lb, gl) == lb.cov > 0
\* (mutant) a local best of equal score replaces the global best
MergeTakesTies(lb, gl) == Score(lb.occ, lb.hue) >= Score(gl.occ, gl.hue)

\* the merge of the local bests into the global best, in thread order
MergeTakes(lb, gl) == Score(lb.occ, lb.hue) > Score(gl.occ, gl.hue)
RECURSIVE MergeLocals(_, _, _, _)
MergeLocals(ls, t, T, gl) ==
    IF t >= T THEN gl
    ELSE MergeLocals(ls, t + 1, T, IF MergeTakes(ls[t], gl) THEN ls[t] ELSE gl)

\* (mutant) the bar without its hue term
EarlyAcceptNoHue(b) == b.occ > early_occ_pct /\ b.line_ok

\* best.occ > 0.78 && best.hue > 0.85 && best.line_ok
EarlyAccept(b) ==
    b.occ > early_occ_pct /\ b.hue * 100 > early_hue_pct * hue_norm /\ b.line_ok

\* (mutant) the flag is never set
EarlyStopNeverSet(flag, early) == flag

\* (mutant) the flag is set at the end of every sweep
EarlyStopAlways(flag, early) == TRUE

\* earlyStop = true when the bar is met
SetEarlyStop(flag, early) == flag \/ early

\* (mutant) the fallback is tried whenever the early-accept bar was not met
NeedsFallbackUnlessEarly(b) == ~EarlyAccept(b)

\* best.cov <= 0.0: no angle passed, the fallback is tried
NeedsFallback(b) == b.cov <= 0

\* (mutant) the rectangle area divided by the image width instead of its area
CoveragePctOverWidth(covNum, cols, rows) == RoundDiv(Clamp(covNum, 0, 100 * cols * rows), cols)

\* lround(clamp(cov, 0, 100)), cov = covNum / (cols * rows)
CoveragePct(covNum, cols, rows) ==
    RoundDiv(Clamp(covNum, 0, 100 * cols * rows), cols * rows)

\* AngleCandidate tabulated: for each scene with a selected component, each
\* offset from the base angle that a sweep can reach and each generator state
MaxOffset == coarse_range_deg + fine_range_deg
MaskTab == [s \in 1..Len(Scenes) |-> build_color_mask_adaptive(Scenes[s])]
BaseRect(s) == MaskTab[s][largest_component(MaskTab[s])].rr
CandTab ==
    [s \in 1..Len(Scenes) |->
        IF largest_component(MaskTab[s]) = 0 THEN << >>
        ELSE [d \in (0 - MaxOffset)..MaxOffset |->
                [g \in 0..(RngMod - 1) |->
                    AngleCandidate(Scenes[s], BaseRect(s), BaseRect(s).angle + d, g)]]]

\* ------------------------------------------------------------ actions
Todo(n) ==
    [i \in 1..n |-> [st |-> "todo", score |-> 0, angle |-> 0, occ |-> 0, hue |-> 0]]

\* a return of detect_and_compute: every path returns true
Return(o, outcome) ==
    /\ pc' = "done"
    /\ ret' = TRUE
    /\ out' = o
    /\ trace' = [trace EXCEPT !.outcome = outcome]

\* (mutant) the empty image not recognised
EmptyNotSeen(img) == FALSE

\* bgr.empty()
Empty(img) == img.empty

\* out = DetectOutput{}; the empty-image return; (1) the adaptive colour mask
Begin ==
    /\ pc = "start"
    /\ IF Empty(Img)
       THEN Return(DetectOutput0, "InputEmpty")
       ELSE /\ out' = [DetectOutput0 EXCEPT !.Smin = AdaptiveSmin(Img),
                                            !.Vmin = AdaptiveVmin(Img),
                                            !.Vmax = AdaptiveVmax(Img),
                                            !.debug_mask_path = saveDebug]
            /\ pc' = "select"
            /\ UNCHANGED << ret, trace >>
    /\ UNCHANGED << cli, csv, scene, saveDebug, nthreads, rng, call, prevOut, phase, rr, best,
                    earlyStop, locals, pos >>

\* the start of scan(stepDeg, rangeDeg): the deltas and the fresh local bests
StartSweep(ph, tr) ==
    /\ pc' = "scan"
    /\ phase' = ph
    /\ locals' = [t \in Threads |-> Best0]
    /\ pos' = [t \in Threads |-> 0]
    /\ trace' = [tr EXCEPT !.cands = Todo(Len(PhaseDeltas(ph)))]

\* (2) the best connected component, (3) the base orientation, then the coarse scan
Select ==
    /\ pc = "select"
    /\ LET lab == largest_component(MaskTab[scene])
       IN  IF lab = 0 \/ CompFracOutOfRange(MaskTab[scene][lab].area, Img.cols, Img.rows)
           THEN /\ pc' = "done"
                /\ ret' = TRUE
                /\ trace' = [trace EXCEPT !.outcome = "NoCandidate", !.comp = lab]
                /\ UNCHANGED << out, phase, rr, best, earlyStop, locals, pos >>
           ELSE /\ rr' = MaskTab[scene][lab].rr
                /\ best' = Best0
                /\ earlyStop' = FALSE
                /\ StartSweep("coarse", [trace EXCEPT !.comp = lab])
                /\ UNCHANGED << out, ret >>
    /\ UNCHANGED << cli, csv, scene, saveDebug, nthreads, rng, call, prevOut >>

\* the failure of a call: an OpenCV exception leaves detect_and_compute, or the
\* process dies of the memory written outside the k-means sample matrix
Fault(why, tr) ==
    /\ pc' = "fault"
    /\ trace' = [tr EXCEPT !.fault = why]

\* (mutant) every worker writes slot 0
SlotZero(t) == 0

\* int tid = omp_get_thread_num(): the slot of locals that thread t writes
Slot(t) == t

\* one iteration of the parallel loop of scan, run by thread t: iteration i, at
\* angle ang, e being AngleCandidate(Img, rr, ang, rng[t])
SeenBy(tr, e) ==
    [tr EXCEPT !.gcr = IF e.ran THEN e.gcr ELSE tr.gcr,
               !.cropped = tr.cropped \/ e.cropped,
               !.roi = IF e.cropped THEN e.roi ELSE tr.roi]
EvalStep(t, i, ang, e) ==
    /\ pos' = [pos EXCEPT ![t] = pos[t] + 1]
    /\ IF earlyStop
       THEN /\ trace' = [trace EXCEPT !.cands[i].st = "skipped"]
            /\ UNCHANGED << pc, locals, rng >>
       ELSE /\ rng' = [rng EXCEPT ![t] = IF e.ran /\ e.gcr.drew THEN RngNext(rng[t])
                                         ELSE rng[t]]
            /\ \/ /\ e.stage # "crop"
                  /\ locals' = [locals EXCEPT
                         ![Slot(t)] = evaluate_angle(e, locals[Slot(t)])]
                  /\ trace' = [SeenBy(trace, e) EXCEPT
                         !.cands[i] = [st |-> IF e.stage = "accepted" THEN "acc" ELSE "rej",
                                       score |-> e.score, angle |-> ang,
                                       occ |-> IF e.ran THEN e.cand.occ ELSE 0,
                                       hue |-> IF e.ran THEN e.cand.hue ELSE 0]]
                  /\ UNCHANGED pc
               \/ /\ e.stage = "crop" \/ (e.ran /\ e.gcr.overrun)
                  /\ Fault(IF e.stage = "crop" THEN "roi" ELSE "kmeans", SeenBy(trace, e))
                  /\ UNCHANGED locals

NextIndex(t) == ChunkStart(Len(PhaseDeltas(phase)), nthreads, t) + pos[t] + 1
AngleAt(i) == SweepCenter(best, rr.angle) + PhaseDeltas(phase)[i]

EvalAngle(t) ==
    /\ pc = "scan"
    /\ pos[t] < ChunkSize(Len(PhaseDeltas(phase)), nthreads, t)
    /\ EvalStep(t, NextIndex(t), AngleAt(NextIndex(t)),
                CandTab[scene][AngleAt(NextIndex(t)) - rr.angle][rng[t]])
    /\ UNCHANGED << cli, csv, scene, saveDebug, nthreads, call, prevOut, phase, out, ret, rr, best,
                    earlyStop >>

\* the sequential end of scan: the merge, the early-accept bar, and what follows
\* the sweep (the fine sweep, the fallback or the result)
EndSweep ==
    /\ pc = "scan"
    /\ \A t \in Threads : pos[t] = ChunkSize(Len(PhaseDeltas(phase)), nthreads, t)
    /\ LET merged == MergeLocals(locals, 0, nthreads, best)
           early == EarlyAccept(merged)
           tr == [trace EXCEPT !.sweeps = Append(trace.sweeps,
                      [phase |-> phase, prev |-> best, cands |-> trace.cands,
                       after |-> merged, center |-> SweepCenter(best, rr.angle)])]
       IN  /\ best' = merged
           /\ earlyStop' = SetEarlyStop(earlyStop, early)
           /\ IF phase = "coarse" /\ ~early
              THEN StartSweep("fine", tr)
              ELSE /\ pc' = IF NeedsFallback(merged) THEN "fallback" ELSE "emit"
                   /\ trace' = tr
                   /\ UNCHANGED << phase, locals, pos >>
    /\ UNCHANGED << cli, csv, scene, saveDebug, nthreads, rng, call, prevOut, out, ret, rr >>

\* the fallback: the base rectangle warped as it is and validated
Fallback ==
    /\ pc = "fallback"
    /\ LET src2 == order_quad_tl_tr_br_bl(RectPoints(rr))
           fullRoi == PaddedRoi(src2, Img.cols, Img.rows)
           gcr2 == grid_checks_cascade(WarpOf(Img.fb), rng[0])
           pct2 == CoveragePct(100 * rr.w * rr.h, Img.cols, Img.rows)
           tr == [trace EXCEPT !.fallbacks = trace.fallbacks + 1, !.roi = fullRoi,
                               !.cropped = TRUE, !.gcr = gcr2]
       IN  \/ /\ RoiValid(fullRoi, Img.cols, Img.rows)
              /\ pc' = "done"
              /\ ret' = TRUE
              /\ rng' = [rng EXCEPT ![0] = IF gcr2.drew THEN RngNext(rng[0]) ELSE rng[0]]
              /\ IF ~GridRejected(gcr2)
                 THEN /\ out' = [out EXCEPT !.coverage_percent = pct2,
                                            !.found = TRUE,
                                            !.best_angle_deg = rr.angle,
                                            !.occupancy = 100,
                                            !.hue_score = gcr2.hue,
                                            !.line_ok = TRUE,
                                            !.debug_warp_path = saveDebug,
                                            !.debug_quad_path = saveDebug,
                                            !.quad = src2]
                      /\ trace' = [tr EXCEPT !.outcome = "Found"]
                 ELSE /\ out' = out
                      /\ trace' = [tr EXCEPT !.outcome = "ValidationFailed"]
           \/ /\ ~RoiValid(fullRoi, Img.cols, Img.rows) \/ gcr2.overrun
              /\ Fault(IF RoiValid(fullRoi, Img.cols, Img.rows) THEN "kmeans" ELSE "roi", tr)
              /\ UNCHANGED << rng, out, ret >>
    /\ UNCHANGED << cli, csv, scene, saveDebug, nthreads, call, prevOut, phase, rr, best,
                    earlyStop, locals, pos >>

\* (5) the result of the scan path
Emit ==
    /\ pc = "emit"
    /\ Return([out EXCEPT !.coverage_percent = CoveragePct(best.cov, Img.cols, Img.rows),
                          !.found = TRUE,
                          !.best_angle_deg = best.angle,
                          !.occupancy = best.occ,
                          !.hue_score = best.hue,
                          !.line_ok = best.line_ok,
                          !.debug_quad_path = saveDebug,
                          !.debug_crop_path = saveDebug,
                          !.debug_clip_path = saveDebug,
                          !.quad = order_quad_tl_tr_br_bl(RectPoints(best.tight))],
              "Found")
    /\ UNCHANGED << cli, csv, scene, saveDebug, nthreads, rng, call, prevOut, phase, rr, best,
                    earlyStop, locals, pos >>

\* the caller calls detect_and_compute again on the same image; the threads and
\* their generators live on
SecondCall ==
    /\ pc = "done"
    /\ call = 1
    /\ call' = 2
    /\ prevOut' = out
    /\ pc' = "start"
    /\ ret' = "none"
    /\ out' = DetectOutput0
    /\ rr' = ZeroRect
    /\ best' = Best0
    /\ earlyStop' = FALSE
    /\ phase' = "coarse"
    /\ locals' = [t \in Threads |-> Best0]
    /\ pos' = [t \in Threads |-> 0]
    /\ trace' = Trace0
    /\ UNCHANGED << cli, csv, scene, saveDebug, nthreads, rng >>

\* ------------------------------------------------------------ results CSV
\* What process_and_report writes to the results file.  A line is the sequence
\* of the pieces streamed into it: "," is the separator, every other piece is
\* (part of) a value, named after what it holds.
CsvHeader ==
    << "index", ",", "input_path", ",", "found", ",", "percent", ",", "angle_deg", ",",
       "occupancy", ",", "hue_score", ",", "line_ok", ",",
       "debug_quad", ",", "debug_warp", ",", "debug_mask", ",", "debug_crop", ",",
       "debug_clip", ",",
       "elapsed_ms", ",", "Smin", ",", "Vmin", ",", "Vmax" >>

\* the row of an image that cv::imread could not read:
\* i , "path" ",0,,,,," ",,,,," ms ",,,"
RowFailedRead ==
    << "index", ",", "quote", "input_path", "quote" >>
        \o << ",", "found", ",", ",", ",", ",", "," >>
        \o << ",", ",", ",", ",", "," >>
        \o << "elapsed_ms" >>
        \o << ",", ",", "," >>

\* the row of a result without a marker: i , "path" ",0," "," "," "," "," ","
\* then five "," in either saveDebug branch, ms "," Smin "," Vmin "," Vmax
RowNotFound(dbg) ==
    << "index", ",", "quote", "input_path", "quote" >>
        \o << ",", "found", "," >>
        \o << ",", ",", ",", ",", "," >>
        \o (IF dbg THEN << ",", ",", ",", ",", "," >> ELSE << ",", ",", ",", ",", "," >>)
        \o << "elapsed_ms", ",", "Smin", ",", "Vmin", ",", "Vmax" >>

\* the row of a found marker: i , "path" ",1," percent "," angle "," occupancy
\* "," hue "," line_ok ","; the five quoted paths or ",,,,"; "," ms "," Smin ..
RowFound(dbg) ==
    << "index", ",", "quote", "input_path", "quote" >>
        \o << ",", "found", "," >>
        \o << "percent", ",", "angle_deg", ",", "occupancy", ",", "hue_score", ",",
              "line_ok", "," >>
        \o (IF dbg
            THEN << "quote", "debug_quad", "quote", ",", "quote", "debug_warp", "quote", ",",
                    "quote", "debug_mask", "quote", ",", "quote", "debug_crop", "quote", ",",
                    "quote", "debug_clip", "quote" >>
            ELSE << ",", ",", ",", "," >>)
        \o << ",", "elapsed_ms", ",", "Smin", ",", "Vmin", ",", "Vmax" >>

\* process_and_report before its loop: the images are given by what
\* cv::imread and detect_and_compute make of them ("unreadable", "none",
\* "found"); the header is written
Report(images, saveDbg) ==
    [images |-> images, saveDebug |-> saveDbg, i |-> 0, rows |-> << CsvHeader >>]

\* polygon_area, doubled: | sum of P[i].x * P[j].y - P[j].x * P[i].y |
RECURSIVE ShoelaceSum(_, _)
ShoelaceSum(P, i) ==
    IF i > Len(P) THEN 0
    ELSE LET j == (i % Len(P)) + 1
         IN  P[i][1] * P[j][2] - P[j][1] * P[i][2] + ShoelaceSum(P, i + 1)
polygon_area2(P) == Abs(ShoelaceSum(P, 1))

\* coverage_percent(quad, sz): lround(100 * areaQ / areaI)
coverage_percent(quad, cols, rows) == RoundDiv(100 * polygon_area2(quad), 2 * cols * rows)

\* ------------------------------------------------------------ detector
\* detect_marker_polygon (src/src/detector.cpp).  A picture is given by what
\* OpenCV finds in it: its size, the share of the palette mask (in 1/1000) and
\* the convex quads that each stage finds, each in the pixel coordinates of the
\* frame the stage works on: mask and edges on the downscaled frame small,
\* edges2 on small upscaled by SECOND_CHANCE_SCALE, adapt on small again.  A
\* quad comes with the mask density inside it (percent), the side ratio of
\* its minAreaRect (in 1/1000) and the verdict of validate_grid_3x3 on the warp
\* of the region that the code maps it to.
RESIZE_MAX == 720
DENSITY_MIN_PCT == 8
TOP_K == 25
Cand(poly, density, ratio, ok) ==
    [poly |-> poly, density |-> density, ratio |-> ratio, ok |-> ok]
Picture(cols, rows, maskRatio, mask, edges, edges2, adapt) ==
    [cols |-> cols, rows |-> rows, maskRatio |-> maskRatio, mask |-> mask,
     edges |-> edges, edges2 |-> edges2, adapt |-> adapt]
Box(x0, y0, x1, y1) == << << x0, y0 >>, << x1, y0 >>, << x1, y1 >>, << x0, y1 >> >>

Pics ==
    << Picture(200, 150, 100, << Cand(Box(50, 40, 100, 90), 90, 1000, TRUE) >>, << >>, << >>, << >>),
       Picture(1440, 720, 300, << Cand(Box(10, 10, 700, 350), 40, 2000, TRUE) >>,
               << Cand(Box(100, 50, 200, 150), 80, 1000, TRUE) >>, << >>, << >>),
       Picture(200, 150, 10, << >>, << >>,
               << Cand(Box(50, 50, 250, 250), 16, 1000, TRUE) >>, << >>),
       Picture(200, 150, 100, << >>, << >>,
               << Cand(Box(40, 40, 120, 120), 25, 1000, TRUE) >>, << >>),
       Picture(200, 150, 100, << >>, << >>, << >>,
               << Cand(Box(30, 30, 80, 80), 70, 1000, TRUE) >>),
       Picture(200, 150, 100, << >>, << >>,
               << Cand(Box(40, 40, 120, 120), 25, 1000, FALSE) >>,
               << Cand(Box(20, 20, 60, 60), 70, 1000, TRUE) >>),
       Picture(200, 150, 0, << >>, << >>, << >>, << >>),
       Picture(200, 150, 100, << Cand(Box(10, 10, 150, 80), 50, 2000, FALSE) >>,
               << Cand(Box(60, 30, 110, 80), 85, 1000, TRUE),
                  Cand(Box(0, 0, 2, 2), 100, 1000, TRUE),
                  Cand(Box(120, 100, 160, 140), 5, 1000, TRUE) >>, << >>, << >>) >>

\* inv = (scale < 1.0) ? 1.0 / scale : 1.0, scale = RESIZE_MAX / longEdge; the
\* pictures of the model have a long edge of at most 720 or a multiple of 720
InvScale(pic) ==
    IF Max(pic.cols, pic.rows) > RESIZE_MAX THEN Max(pic.cols, pic.rows) \div RESIZE_MAX ELSE 1

\* W.SECOND_CHANCE_SCALE, doubled: 2.0, or 2.5 when maskRatio < 0.015
SecondChanceScale2(pic) == IF pic.maskRatio < 15 THEN 5 ELSE 4

\* candSmall: the quads of the mask (unless maskRatio > 0.25) and of the
\* edges; if there is none, those of the edges of the upscaled frame; if there
\* is still none, those of the adaptive threshold
CandSmall(pic) ==
    LET first == (IF pic.maskRatio > 250 THEN << >> ELSE pic.mask) \o pic.edges
    IN  IF first # << >> THEN [stage |-> "first", cands |-> first]
        ELSE IF pic.edges2 # << >> THEN [stage |-> "second", cands |-> pic.edges2]
        ELSE [stage |-> "adaptive", cands |-> pic.adapt]

\* the least doubled area that is not below area * MIN_QUAD_AREA_FRAC (0.00006)
MinQuadArea2(area) == CeilDiv(3 * area, 25000)

\* score = area + DENSITY_GAIN * density / 100 - SQUARE_PENALTY * |ratio - 1|,
\* times 2000
CandScore(c) ==
    polygon_area2(c.poly) * 1000 + 40000 * c.density - 1000 * Abs(c.ratio - 1000)

\* q: the quad mapped to the original image, (float)p.x * inv
MapToOriginal(poly, inv) == [i \in 1..4 |-> << poly[i][1] * inv, poly[i][2] * inv >>]

\* order_quad_tl_tr_br_bl of detector.cpp: the points sorted by y, then x; the
\* upper two and the lower two each ordered by x
SortRowsThenX(q) ==
    LET perm == CHOOSE f \in [1..4 -> 1..4] :
                    /\ \A i, j \in 1..4 : i # j => f[i] # f[j]
                    /\ \A i \in 1..3 :
                        \/ q[f[i]][2] < q[f[i + 1]][2]
                        \/ q[f[i]][2] = q[f[i + 1]][2] /\ q[f[i]][1] <= q[f[i + 1]][1]
        s == [i \in 1..4 |-> q[perm[i]]]
    IN  << IF s[1][1] <= s[2][1] THEN s[1] ELSE s[2],
           IF s[1][1] <= s[2][1] THEN s[2] ELSE s[1],
           IF s[3][1] <= s[4][1] THEN s[4] ELSE s[3],
           IF s[3][1] <= s[4][1] THEN s[3] ELSE s[4] >>

\* detect_marker_polygon: the candidates that pass the area and density gates
\* are tried in the order of their scores, the TOP_K best only; the first whose
\* mapped quad is large enough and validates is returned.  stage and poly are
\* history: the stage that found the winner and the quad as it was found.
detect_marker_polygon(pic) ==
    LET cs == CandSmall(pic)
        inv == InvScale(pic)
        small == (pic.cols \div inv) * (pic.rows \div inv)
        scored == {k \in 1..Len(cs.cands) :
                      /\ polygon_area2(cs.cands[k].poly) >= MinQuadArea2(small)
                      /\ cs.cands[k].density >= DENSITY_MIN_PCT}
        rank(k) == Cardinality({j \in scored : CandScore(cs.cands[j]) > CandScore(cs.cands[k])})
        good == {k \in scored :
                    /\ rank(k) < TOP_K
                    /\ polygon_area2(SortRowsThenX(MapToOriginal(cs.cands[k].poly, inv)))
                            >= MinQuadArea2(pic.cols * pic.rows)
                    /\ cs.cands[k].ok}
    IN  IF good = {} THEN [found |-> FALSE, quad |-> << >>, stage |-> cs.stage, poly |-> << >>]
        ELSE LET w == CHOOSE k \in good : \A j \in good : rank(k) <= rank(j)
             IN  [found |-> TRUE,
                  quad |-> SortRowsThenX(MapToOriginal(cs.cands[w].poly, inv)),
                  stage |-> cs.stage, poly |-> cs.cands[w].poly]

\* ------------------------------------------------------------ command line
\* An input file, given by what cv::imread and detect_marker_polygon make of
\* it: whether it decodes, its size, whether a marker is found and the quad.
File(name, readable, cols, rows, found, quad) ==
    [name |-> name, pic |-> 0, readable |-> readable, cols |-> cols, rows |-> rows,
     found |-> found, quad |-> quad]
\* a readable file holding picture k of Pics
Shot(k) ==
    [name |-> "shot.png", pic |-> k, readable |-> TRUE, cols |-> Pics[k].cols,
     rows |-> Pics[k].rows, found |-> detect_marker_polygon(Pics[k]).found,
     quad |-> detect_marker_polygon(Pics[k]).quad]
Files ==
    << File("missing.png", FALSE, 0, 0, FALSE, << >>),
       File("blank.png", TRUE, 80, 60, FALSE, << >>),
       File("quarter.png", TRUE, 80, 60, TRUE,
            << << 10, 10 >>, << 50, 10 >>, << 50, 40 >>, << 10, 40 >> >>),
       File("full.png", TRUE, 80, 60, TRUE,
            << << 0, 0 >>, << 80, 0 >>, << 80, 60 >>, << 0, 60 >> >>),
       File("tilted.png", TRUE, 64, 48, TRUE,
            << << 20, 4 >>, << 40, 24 >>, << 20, 44 >>, << 0, 24 >> >>) >>
            \o [k \in 1..Len(Pics) |-> Shot(k)]

\* the line "<path> <pct>%"
Line(path, pct) == [path |-> path, pct |-> pct]

\* main before the loop; exit is -1 while main runs
Cli(inputs) == [inputs |-> inputs, i |-> 1, stdout |-> << >>, notFound |-> 0, exit |-> -1]
CliIdle == Cli(<< >>)
CliRunning == cli.exit = -1 /\ cli.i <= Len(cli.inputs)
CliFile == Files[cli.inputs[cli.i]]

\* inputs.empty(): the usage message, return 1
CliUsage ==
    /\ cli.exit = -1 /\ cli.inputs = << >>
    /\ cli' = [cli EXCEPT !.exit = 1]
    /\ UNCHANGED << core, csv >>

\* img.empty() after cv::imread: "Failed: <path>" on stderr, return 1
CliReadFails ==
    /\ CliRunning /\ ~CliFile.readable
    /\ cli' = [cli EXCEPT !.exit = 1]
    /\ UNCHANGED << core, csv >>

\* detect_marker_polygon returned false: ++notFound; continue
CliNotFound ==
    /\ CliRunning /\ CliFile.readable /\ ~CliFile.found
    /\ cli' = [cli EXCEPT !.notFound = cli.notFound + 1, !.i = cli.i + 1]
    /\ UNCHANGED << core, csv >>

\* the marker found: the line is printed
CliPrint ==
    /\ CliRunning /\ CliFile.readable /\ CliFile.found
    /\ cli' = [cli EXCEPT
           !.stdout = Append(cli.stdout,
                             Line(CliFile.name,
                                  coverage_percent(CliFile.quad, CliFile.cols, CliFile.rows))),
           !.i = cli.i + 1]
    /\ UNCHANGED << core, csv >>

\* return (notFound > 0) ? 2 : 0
CliExit ==
    /\ cli.exit = -1 /\ cli.inputs # << >> /\ cli.i > Len(cli.inputs)
    /\ cli' = [cli EXCEPT !.exit = IF cli.notFound > 0 THEN 2 ELSE 0]
    /\ UNCHANGED << core, csv >>

InitCli ==
    /\ cli \in {Cli(l) : l \in UNION {[1..n -> 1..Len(Files)] : n \in 0..MaxInputs}}
    /\ scene = 1
    /\ saveDebug = FALSE
    /\ nthreads = 1
    /\ rng = [t \in 0..0 |-> 0]
    /\ call = 1
    /\ prevOut = DetectOutput0
    /\ pc = "start"
    /\ phase = "coarse"
    /\ out = DetectOutput0
    /\ ret = "none"
    /\ rr = ZeroRect
    /\ best = Best0
    /\ earlyStop = FALSE
    /\ locals = [t \in 0..0 |-> Best0]
    /\ pos = [t \in 0..0 |-> 0]
    /\ trace = Trace0
    /\ csv = Report(<< >>, FALSE)

NextCli == CliUsage \/ CliReadFails \/ CliNotFound \/ CliPrint \/ CliExit

SpecCli == InitCli /\ [][NextCli]_vars

\* one pass of the loop over the images
ProcessImage ==
    /\ csv.i < Len(csv.images)
    /\ LET kind == csv.images[csv.i + 1]
           row == CASE kind = "unreadable" -> RowFailedRead
                    [] kind = "none" -> RowNotFound(csv.saveDebug)
                    [] OTHER -> RowFound(csv.saveDebug)
       IN  csv' = [csv EXCEPT !.i = csv.i + 1, !.rows = Append(csv.rows, row)]
    /\ UNCHANGED << core, cli >>

InitReport ==
    /\ \E l \in UNION {[1..n -> {"unreadable", "none", "found"}] : n \in 0..MaxInputs} :
        \E d \in BOOLEAN : csv = Report(l, d)
    /\ cli = CliIdle
    /\ scene = 1
    /\ saveDebug = FALSE
    /\ nthreads = 1
    /\ rng = [t \in 0..0 |-> 0]
    /\ call = 1
    /\ prevOut = DetectOutput0
    /\ pc = "start"
    /\ phase = "coarse"
    /\ out = DetectOutput0
    /\ ret = "none"
    /\ rr = ZeroRect
    /\ best = Best0
    /\ earlyStop = FALSE
    /\ locals = [t \in 0..0 |-> Best0]
    /\ pos = [t \in 0..0 |-> 0]
    /\ trace = Trace0

NextReport == ProcessImage

SpecReport == InitReport /\ [][NextReport]_vars

Init ==
    /\ scene \in 1..Len(Scenes)
    /\ saveDebug \in BOOLEAN
    /\ nthreads \in 1..MaxThreads
    /\ \E g \in 0..(RngMod - 1) : rng = [t \in 0..(nthreads - 1) |-> g]
    /\ call = 1
    /\ prevOut = DetectOutput0
    /\ pc = "start"
    /\ phase = "coarse"
    /\ out = DetectOutput0
    /\ ret = "none"
    /\ rr = ZeroRect
    /\ best = Best0
    /\ earlyStop = FALSE
    /\ locals = [t \in 0..(nthreads - 1) |-> Best0]
    /\ pos = [t \in 0..(nthreads - 1) |-> 0]
    /\ trace = Trace0
    /\ cli = CliIdle
    /\ csv = Report(<< >>, FALSE)

Next ==
    \/ Begin
    \/ Select
    \/ \E t \in Threads : EvalAngle(t)
    \/ EndSweep
    \/ Fallback
    \/ Emit
    \/ SecondCall

Spec == Init /\ [][Next]_vars

\* ------------------------------------------------------------ properties
Returned == pc = "done"
ViaFallback == trace.fallbacks = 1
BestScore(b) == Score(b.occ, b.hue)
Accepted(sw) == {i \in 1..Len(sw.cands) : sw.cands[i].st = "acc"}
SweepMax(sw) ==
    LET scores == {sw.cands[i].score : i \in Accepted(sw)} \cup {BestScore(sw.prev)}
    IN  CHOOSE m \in scores : \A u \in scores : m >= u
FirstBest(sw) ==
    CHOOSE i \in Accepted(sw) :
        /\ sw.cands[i].score = SweepMax(sw)
        /\ \A j \in Accepted(sw) : sw.cands[j].score = SweepMax(sw) => i <= j
ReportedCorners == RectPoints(IF ViaFallback THEN rr ELSE best.tight)

\* C1: a marker reported found has a coverage percentage between 0 and 100,
\* whether the scan or the fallback produced the result
CoverageInRange == (Returned /\ out.found) => out.coverage_percent \in 0..100
CoverageInRangeWitness ==
    Returned /\ out.found /\ ViaFallback /\ out.coverage_percent \in 1..99

\* C2: the reported quad is the four corners of the reported rectangle, ordered
\* so that quad[0] has the least x+y, quad[2] the greatest x+y, quad[1] the
\* greatest x-y and quad[3] the least x-y, on the scan path and on the fallback
QuadOrdered ==
    (Returned /\ out.found) =>
        /\ Len(out.quad) = 4
        /\ \A i \in 1..4 : \E j \in 1..4 : out.quad[i] = ReportedCorners[j]
        /\ \A j \in 1..4 :
            /\ sumf(out.quad[1]) <= sumf(ReportedCorners[j])
            /\ sumf(out.quad[3]) >= sumf(ReportedCorners[j])
            /\ diff(out.quad[2]) >= diff(ReportedCorners[j])
            /\ diff(out.quad[4]) <= diff(ReportedCorners[j])
QuadOrderedWitness ==
    /\ Returned /\ out.found /\ ~ViaFallback
    /\ out.quad # ReportedCorners
    /\ sumf(ReportedCorners[1]) > sumf(out.quad[1])

\* C3: on return, found holds exactly when coverage_percent is in 0..100 and
\* exactly when the quad has four points; otherwise coverage_percent is -1 and
\* the quad is empty
FoundIffResult ==
    Returned =>
        /\ out.found <=> out.coverage_percent \in 0..100
        /\ out.found <=> Len(out.quad) = 4
        /\ ~out.found => out.coverage_percent = -1 /\ out.quad = << >>
FoundIffResultWitness ==
    Returned /\ ~out.found /\ trace.outcome = "ValidationFailed"

\* C4 (as the spec states it): no call reaches an error state; every call
\* returns true with one of the four outcomes, and every padded crop rectangle
\* computed is non-empty and inside the image
EveryCallReturns ==
    /\ pc # "fault"
    /\ trace.cropped => RoiValid(trace.roi, Img.cols, Img.rows)
    /\ Returned =>
        /\ ret = TRUE
        /\ trace.outcome \in {"InputEmpty", "NoCandidate", "ValidationFailed", "Found"}
        /\ out.found <=> trace.outcome = "Found"

\* C5 (as the spec states it): a second call on the same image reports the
\* same found and the same coverage_percent as the first
SameResultTwice ==
    (call = 2 /\ Returned /\ ~saveDebug) =>
        /\ out.found = prevOut.found
        /\ out.coverage_percent = prevOut.coverage_percent

\* C6: after every sweep the global best has the greatest score among the
\* candidates the sweep accepted and the best held before it, and is one of
\* them, for any number of threads and any interleaving of their iterations
BestIsMaxAccepted ==
    \A k \in 1..Len(trace.sweeps) :
        LET sw == trace.sweeps[k]
        IN  /\ BestScore(sw.after) = SweepMax(sw)
            /\ \/ sw.after = sw.prev
               \/ \E i \in Accepted(sw) :
                    /\ sw.cands[i].angle = sw.after.angle
                    /\ sw.cands[i].score = BestScore(sw.after)
            /\ \A i \in 1..Len(sw.cands) : sw.cands[i].st \in {"acc", "rej"}
BestIsMaxAcceptedWitness ==
    /\ nthreads = 2
    /\ \E k \in 1..Len(trace.sweeps) :
        LET sw == trace.sweeps[k]
        IN  /\ sw.after # sw.prev
            /\ FirstBest(sw) > ChunkSize(Len(sw.cands), nthreads, 0)
            /\ \E i \in Accepted(sw) :
                /\ i <= ChunkSize(Len(sw.cands), nthreads, 0)
                /\ sw.cands[i].score < SweepMax(sw)

\* C7: among candidates of equal greatest score the first in scan order is
\* kept: the earliest iteration within a sweep, and the best of the coarse
\* sweep over an equal candidate of the fine sweep
FirstOfTiesKept ==
    \A k \in 1..Len(trace.sweeps) :
        LET sw == trace.sweeps[k]
        IN  IF BestScore(sw.prev) = SweepMax(sw)
            THEN sw.after = sw.prev
            ELSE sw.after.angle = sw.cands[FirstBest(sw)].angle
FirstOfTiesKeptWitness ==
    /\ nthreads = 2
    /\ Len(trace.sweeps) = 2
    /\ LET co == trace.sweeps[1]
           fi == trace.sweeps[2]
       IN  /\ BestScore(co.prev) < SweepMax(co)
           /\ \E i, j \in Accepted(co) :
                /\ i <= ChunkSize(Len(co.cands), nthreads, 0)
                /\ j > ChunkSize(Len(co.cands), nthreads, 0)
                /\ co.cands[i].score = SweepMax(co)
                /\ co.cands[j].score = SweepMax(co)
           /\ \E i \in Accepted(fi) : fi.cands[i].score = BestScore(fi.prev)

\* C8: the fallback runs at most once in a call, only after the coarse and the
\* fine sweep have both ended without an accepted candidate, and when its
\* validation rejects the base rectangle the call reports found = false
FallbackOnceAfterSweeps ==
    /\ trace.fallbacks <= 1
    /\ (pc = "fallback" \/ ViaFallback) =>
        /\ Len(trace.sweeps) = 2
        /\ trace.sweeps[1].phase = "coarse"
        /\ trace.sweeps[2].phase = "fine"
        /\ \A k \in 1..2 : Accepted(trace.sweeps[k]) = {}
    /\ (Returned /\ ViaFallback /\ GridRejected(trace.gcr)) => ~out.found
FallbackOnceAfterSweepsWitness ==
    Returned /\ ViaFallback /\ GridRejected(trace.gcr) /\ ~out.found

\* C9: a marker reported found passed the gate: line_ok holds and hue_score is
\* at least 0.25; a candidate that all five validators rejected is never the
\* reported one
FoundPassedGate ==
    (Returned /\ out.found) =>
        /\ out.line_ok
        /\ out.hue_score * 100 >= min_hue_score_pct * hue_norm
        /\ IF ViaFallback
           THEN /\ trace.gcr.line_ok
                /\ trace.gcr.hue = out.hue_score
                /\ \E k \in 1..Len(trace.gcr.invoked) : trace.gcr.invoked[k].ok
           ELSE /\ best.via \in 1..5
                /\ best.hue = out.hue_score
                /\ \E k \in 1..Len(trace.sweeps) :
                    \E i \in Accepted(trace.sweeps[k]) :
                        trace.sweeps[k].cands[i].angle = out.best_angle_deg
FoundPassedGateWitness ==
    /\ Returned /\ out.found /\ ~ViaFallback
    /\ out.hue_score = 3
    /\ \E k \in 1..Len(trace.sweeps) :
        \E i \in 1..Len(trace.sweeps[k].cands) : trace.sweeps[k].cands[i].st = "rej"

\* C10: the cascade invokes the validators in the order line-peaks, Sobel
\* gradient, max-gap two-cuts, k-means, template correlation; validator k runs
\* only when validators 1..k-1 rejected, none runs after the first acceptance,
\* and line_ok holds exactly when an invoked validator accepted
CascadeInOrder ==
    LET inv == trace.gcr.invoked
    IN  /\ Len(inv) <= 5
        /\ \A k \in 1..Len(inv) :
            /\ inv[k].v = k
            /\ k < Len(inv) => ~inv[k].ok
        /\ (Len(inv) > 0 /\ Len(inv) < 5) => inv[Len(inv)].ok
        /\ Len(inv) > 0 => (trace.gcr.line_ok <=> \E k \in 1..Len(inv) : inv[k].ok)
CascadeInOrderWitness ==
    /\ Len(trace.gcr.invoked) = 4
    /\ trace.gcr.invoked[4].ok
    /\ trace.gcr.line_ok

MeetsBar(occ, hue, line_ok) ==
    occ > early_occ_pct /\ hue * 100 > early_hue_pct * hue_norm /\ line_ok
CoarseEnded == Len(trace.sweeps) >= 1
CoarseBest == trace.sweeps[1].after
FineStarted == phase = "fine" \/ Len(trace.sweeps) = 2
BarCandidates(sw) == {i \in Accepted(sw) : MeetsBar(sw.cands[i].occ, sw.cands[i].hue, TRUE)}

\* C11: the fine sweep runs exactly when the best held after the coarse sweep
\* fails the early-accept bar (occupancy > 0.78, hue_score > 0.85, line_ok),
\* the case of no accepted coarse candidate included; it is skipped otherwise
FineIffBarFailed ==
    /\ ~CoarseEnded => ~FineStarted
    /\ CoarseEnded =>
        /\ trace.sweeps[1].phase = "coarse"
        /\ FineStarted <=> ~MeetsBar(CoarseBest.occ, CoarseBest.hue, CoarseBest.line_ok)
        /\ Len(trace.sweeps) = 2 =>
            /\ trace.sweeps[2].phase = "fine"
            /\ trace.sweeps[2].center = SweepCenter(CoarseBest, rr.angle)
FineIffBarFailedWitness ==
    /\ Len(trace.sweeps) = 2
    /\ CoarseBest.cov > 0
    /\ CoarseBest.occ > early_occ_pct
    /\ CoarseBest.line_ok
    /\ Accepted(trace.sweeps[2]) # {}

\* C12 (as the spec states it): an accepted coarse candidate that meets the
\* bar sets the early-stop flag and has the fine sweep skipped, whether or not
\* it is the best
AnyBarCandidateStops ==
    (CoarseEnded /\ BarCandidates(trace.sweeps[1]) # {}) => (earlyStop /\ ~FineStarted)

\* C12 (amended): the early-stop flag is set, and the fine sweep skipped,
\* exactly when the best held after the coarse sweep meets the bar; an accepted
\* candidate that meets the bar without being the best does not set it
BestBarCandidateStops ==
    /\ (Len(trace.sweeps) <= 1 \/ pc = "scan") =>
        (earlyStop <=>
            (CoarseEnded /\ MeetsBar(CoarseBest.occ, CoarseBest.hue, CoarseBest.line_ok)))
    /\ (CoarseEnded /\ MeetsBar(CoarseBest.occ, CoarseBest.hue, CoarseBest.line_ok)) =>
        (earlyStop /\ ~FineStarted)
    /\ (CoarseEnded /\ ~MeetsBar(CoarseBest.occ, CoarseBest.hue, CoarseBest.line_ok)) =>
        FineStarted
BestBarCandidateStopsWitness ==
    /\ Len(trace.sweeps) = 1
    /\ phase = "fine"
    /\ BarCandidates(trace.sweeps[1]) # {}
    /\ pc = "scan"
    /\ ~earlyStop

WorkersRunning ==
    /\ pc = "scan"
    /\ \E t \in Threads : pos[t] < ChunkSize(Len(PhaseDeltas(phase)), nthreads, t)
WorkersDone ==
    /\ pc = "scan"
    /\ \A t \in Threads : pos[t] = ChunkSize(Len(PhaseDeltas(phase)), nthreads, t)

\* C13: while the workers of a sweep run, a step is one worker's iteration and
\* writes that worker's local-best slot only; the global best, the early-stop
\* flag, the base rectangle and the image are not written. The global best and
\* the flag change only in the sequential section after all workers finished,
\* where the local bests are merged once per sweep
WorkersWriteOwnSlot ==
    [][/\ WorkersRunning =>
            /\ best' = best /\ earlyStop' = earlyStop /\ rr' = rr /\ scene' = scene
            /\ Len(trace'.sweeps) = Len(trace.sweeps)
            /\ \E t \in Threads :
                /\ pos'[t] = pos[t] + 1
                /\ \A u \in Threads \ {t} : pos'[u] = pos[u] /\ locals'[u] = locals[u]
       /\ (pc \in {"scan", "fallback", "emit"}
                /\ (best' # best \/ earlyStop' # earlyStop \/ trace'.sweeps # trace.sweeps)) =>
            /\ WorkersDone
            /\ best' = MergeLocals(locals, 0, nthreads, best)
            /\ Len(trace'.sweeps) = Len(trace.sweeps) + 1
            /\ trace'.sweeps[Len(trace'.sweeps)].phase = phase
            /\ \A k \in 1..Len(trace.sweeps) : trace.sweeps[k].phase # phase
      ]_vars
WorkersWriteOwnSlotWitness ==
    /\ nthreads = 2
    /\ WorkersRunning
    /\ locals[0].cov > 0
    /\ locals[1].cov > 0
    /\ locals[0] # locals[1]

Desaturated(sc) == ~sc.empty /\ sc.pS85 = 0 /\ \A i \in 1..Len(sc.comps) : sc.comps[i].hsv[2] = 0
SolidColour(sc) ==
    ~sc.empty /\ Len(sc.comps) = 1 /\ sc.comps[1].area = sc.cols * sc.rows

\* C14: an image without a saturated region, be it of one solid colour or
\* fully desaturated, is reported found = false with a hue_score below 0.25,
\* whatever its size: it ends as NoCandidate, before any angle is scanned
UnsaturatedNotFound ==
    (Returned /\ (Desaturated(Img) \/ SolidColour(Img))) =>
        /\ ~out.found
        /\ out.hue_score * 100 < min_hue_score_pct * hue_norm
        /\ trace.outcome = "NoCandidate"
        /\ trace.sweeps = << >>
UnsaturatedNotFoundWitness ==
    /\ Returned
    /\ Desaturated(Img)
    /\ ~SolidColour(Img)
    /\ Img.comps # << >>
    /\ ~out.found

\* C15: an empty image makes the call return at once, true, with found =
\* false, coverage_percent = -1 and an empty quad; no threshold is computed,
\* nothing is selected, scanned or validated, and no artifact path is set even
\* when saveDebug is on
EmptyShortCircuits ==
    Img.empty =>
        /\ pc \in {"start", "done"}
        /\ trace.sweeps = << >> /\ trace.fallbacks = 0 /\ ~trace.cropped
        /\ trace.gcr.invoked = << >> /\ trace.fault = "none"
        /\ Returned =>
            /\ ret = TRUE
            /\ trace.outcome = "InputEmpty"
            /\ ~out.found /\ out.coverage_percent = -1 /\ out.quad = << >>
            /\ out.Smin = 0 /\ out.Vmin = 0 /\ out.Vmax = 255
            /\ ~out.debug_mask_path /\ ~out.debug_quad_path /\ ~out.debug_warp_path
            /\ ~out.debug_crop_path /\ ~out.debug_clip_path
EmptyShortCircuitsWitness ==
    Returned /\ Img.empty /\ saveDebug /\ trace.outcome = "InputEmpty"

\* C16 (as the spec states it): the cascade run on a region whose smaller
\* side is below 60 px is in smallMode
SmallRegionInSmallMode ==
    (trace.gcr.invoked # << >> /\ Min(rr.w, rr.h) < small_side) => trace.gcr.smallMode

\* C17 (as the spec states it): a ValidationFailed result carries the adaptive
\* thresholds and the hue score and line flag that the last validation
\* attempt measured
FailedKeepsTelemetry ==
    (Returned /\ trace.outcome = "ValidationFailed") =>
        /\ ~out.found
        /\ out.Smin = AdaptiveSmin(Img)
        /\ out.Vmin = AdaptiveVmin(Img)
        /\ out.Vmax = AdaptiveVmax(Img)
        /\ out.hue_score = trace.gcr.hue
        /\ out.line_ok = trace.gcr.line_ok

\* C18 (as the spec states it): with saveDebug on, a found result has all five
\* artifact paths set, on either path; with saveDebug off none is set
AllArtifactsWhenFound ==
    Returned =>
        /\ (saveDebug /\ out.found) =>
            /\ out.debug_mask_path /\ out.debug_quad_path /\ out.debug_warp_path
            /\ out.debug_crop_path /\ out.debug_clip_path
        /\ ~saveDebug =>
            /\ ~out.debug_mask_path /\ ~out.debug_quad_path /\ ~out.debug_warp_path
            /\ ~out.debug_crop_path /\ ~out.debug_clip_path

RECURSIVE LinesOfFound(_, _)
LinesOfFound(inputs, i) ==
    IF i > Len(inputs) THEN << >>
    ELSE (IF Files[inputs[i]].found
          THEN << Line(Files[inputs[i]].name,
                       coverage_percent(Files[inputs[i]].quad, Files[inputs[i]].cols,
                                        Files[inputs[i]].rows)) >>
          ELSE << >>) \o LinesOfFound(inputs, i + 1)

\* C19 (as the spec states it): when the tool exits, its standard output is
\* the lines "<path> <percent>%" of exactly the inputs in which a marker is
\* found, in argument order
PrintsEveryFound == cli.exit # -1 => cli.stdout = LinesOfFound(cli.inputs, 1)

\* C21 (as the spec states it): the reported Smin is the 85th percentile of
\* saturation clamped into [35,80], Vmin the 60th percentile of value clamped
\* into [40,90], Vmax the 99th percentile of value clamped into [180,255]
ThresholdsArePercentiles ==
    (pc # "start" /\ ~Img.empty) =>
        /\ out.Smin = Max(Smin_floor, Min(Smin_ceil, Img.pS85))
        /\ out.Vmin = Max(Vmin_floor, Min(Vmin_ceil, Img.pV60))
        /\ out.Vmax = Max(Vmax_floor, Min(Vmax_ceil, Img.pV99))

\* C21 (amended): the reported Smin is the 85th percentile of saturation less
\* 10, clamped into [35,80]; Vmin and Vmax are the 60th and 99th percentiles of
\* value clamped into [40,90] and [180,255]; they are reported on every return
\* of a non-empty image, whatever the outcome
ThresholdsWithMargin ==
    (pc # "start" /\ ~Img.empty) =>
        /\ out.Smin = Max(Smin_floor, Min(Smin_ceil, Img.pS85 - 10))
        /\ out.Vmin = Max(Vmin_floor, Min(Vmin_ceil, Img.pV60))
        /\ out.Vmax = Max(Vmax_floor, Min(Vmax_ceil, Img.pV99))
ThresholdsWithMarginWitness ==
    /\ Returned
    /\ Img.pS85 > Smin_floor /\ Img.pS85 < Smin_ceil
    /\ out.Smin = Img.pS85 - 10
    /\ out.Vmin = Img.pV60
    /\ out.Vmax = Img.pV99

\* C22 (as the spec states it): largest_component selects, among the components
\* of at least 100 pixels, one whose score area * min(w,h) / max(w,h) is
\* greatest, the lowest label among those of equal score, and selects none
\* exactly when no component has at least 100 pixels
SelectsLowestLabelOfMax ==
    (pc \notin {"start", "select"} /\ ~Img.empty) =>
        LET comps == MaskTab[scene]
            big == {i \in 1..Len(comps) : comps[i].area >= min_comp_area}
        IN  /\ trace.comp = 0 <=> big = {}
            /\ trace.comp # 0 =>
                /\ trace.comp \in big
                /\ \A j \in big :
                    /\ ScoreNum(comps[trace.comp], comps[j]) >= ScoreNum(comps[j], comps[trace.comp])
                    /\ ScoreNum(comps[trace.comp], comps[j]) = ScoreNum(comps[j], comps[trace.comp])
                            => trace.comp <= j

\* C22 (amended): the selected component has the greatest score among those of
\* at least 100 pixels; among components of equal exact score the one whose
\* score as computed in double precision is greatest is selected, and the
\* lowest label among those that are equal as computed; none is selected
\* exactly when no component has at least 100 pixels
SelectsMaxComputedScore ==
    (pc \notin {"start", "select"} /\ ~Img.empty) =>
        LET comps == MaskTab[scene]
            big == {i \in 1..Len(comps) : comps[i].area >= min_comp_area}
        IN  /\ trace.comp = 0 <=> big = {}
            /\ trace.comp # 0 =>
                /\ trace.comp \in big
                /\ trace.outcome # "NoCandidate" => rr = comps[trace.comp].rr
                /\ \A j \in big :
                    /\ ScoreNum(comps[trace.comp], comps[j]) >= ScoreNum(comps[j], comps[trace.comp])
                    /\ ScoreNum(comps[trace.comp], comps[j]) = ScoreNum(comps[j], comps[trace.comp])
                            => \/ ScoreUlps(comps[trace.comp]) > ScoreUlps(comps[j])
                               \/ /\ ScoreUlps(comps[trace.comp]) = ScoreUlps(comps[j])
                                  /\ trace.comp <= j
SelectsMaxComputedScoreWitness ==
    /\ Returned
    /\ trace.comp = 2
    /\ Len(MaskTab[scene]) = 3
    /\ MaskTab[scene][3].area < min_comp_area
    /\ ScoreNum(MaskTab[scene][1], MaskTab[scene][2]) = ScoreNum(MaskTab[scene][2], MaskTab[scene][1])
    /\ ScoreUlps(MaskTab[scene][2]) > ScoreUlps(MaskTab[scene][1])

\* C23: when the component that largest_component chose has fewer pixels than
\* 0.02% or more than 95% of the image, the call ends with found = false, no
\* angle scanned, no fallback and no other component considered, even when
\* another component of at least 100 pixels lies inside the allowed range
OutOfRangeEndsCall ==
    LET comps == MaskTab[scene]
        total == Img.cols * Img.rows
    IN  (trace.comp # 0 /\ (\/ comps[trace.comp].area * 10000 < 2 * total
                            \/ comps[trace.comp].area * 100 > 95 * total)) =>
            /\ Returned /\ ret = TRUE
            /\ ~out.found
            /\ trace.outcome = "NoCandidate"
            /\ trace.sweeps = << >> /\ trace.cands = << >> /\ trace.fallbacks = 0
            /\ rr = ZeroRect
OutOfRangeEndsCallWitness ==
    /\ Returned
    /\ trace.comp = 1
    /\ MaskTab[scene][1].area * 100 > 95 * Img.cols * Img.rows
    /\ Len(MaskTab[scene]) = 2
    /\ MaskTab[scene][2].area >= min_comp_area
    /\ MaskTab[scene][2].area * 100 <= 95 * Img.cols * Img.rows
    /\ MaskTab[scene][2].area * 10000 >= 2 * Img.cols * Img.rows
    /\ trace.outcome = "NoCandidate"

\* C24 (as the spec states it): the coarse sweep evaluates exactly base + d, d
\* from -25 to 25 in steps of 2, the fine sweep exactly center + d, d from -6 to
\* 6 in steps of 1, center being the best coarse angle when the coarse sweep
\* accepted a candidate; the centre angle itself is among the angles of both
SweepsIncludeCentre ==
    \A k \in 1..Len(trace.sweeps) :
        LET sw == trace.sweeps[k]
        IN  /\ sw.phase = "coarse" =>
                /\ Len(sw.cands) = 26 /\ sw.center = rr.angle
                /\ \A i \in 1..26 : sw.cands[i].angle = sw.center - 25 + 2 * (i - 1)
            /\ sw.phase = "fine" =>
                /\ Len(sw.cands) = 13
                /\ \A i \in 1..13 : sw.cands[i].angle = sw.center - 6 + (i - 1)
                /\ Accepted(trace.sweeps[1]) # {} => sw.center = trace.sweeps[1].after.angle
            /\ \E i \in 1..Len(sw.cands) : sw.cands[i].angle = sw.center

\* C24 (amended): the angles are as stated; the fine sweep is centred on the
\* base angle when the coarse sweep accepted nothing, and its centre is among
\* its angles; the coarse sweep's offsets are the 26 odd numbers from -25 to 25,
\* so the base angle itself is not among the coarse angles
SweepAngles ==
    \A k \in 1..Len(trace.sweeps) :
        LET sw == trace.sweeps[k]
        IN  /\ sw.phase = "coarse" =>
                /\ k = 1
                /\ Len(sw.cands) = 26 /\ sw.center = rr.angle
                /\ \A i \in 1..26 :
                    /\ sw.cands[i].st \in {"acc", "rej"}
                    /\ sw.cands[i].angle = sw.center - 25 + 2 * (i - 1)
                    /\ sw.cands[i].angle # sw.center
            /\ sw.phase = "fine" =>
                /\ k = 2
                /\ Len(sw.cands) = 13
                /\ \A i \in 1..13 :
                    /\ sw.cands[i].st \in {"acc", "rej"}
                    /\ sw.cands[i].angle = sw.center - 6 + (i - 1)
                /\ sw.cands[7].angle = sw.center
                /\ IF Accepted(trace.sweeps[1]) # {}
                   THEN sw.center = trace.sweeps[1].after.angle
                   ELSE sw.center = rr.angle
SweepAnglesWitness ==
    /\ Len(trace.sweeps) = 2
    /\ Accepted(trace.sweeps[1]) # {}
    /\ trace.sweeps[2].center # rr.angle
    /\ \E i \in Accepted(trace.sweeps[2]) : trace.sweeps[2].cands[i].angle = rr.angle

\* C25: the early-stop flag is false whenever the workers of a sweep run, so
\* no iteration is skipped: in a sweep in progress exactly the iterations that
\* each worker has passed in its block are evaluated, once each, and every
\* sweep that ends has evaluated every angle of its list; the flag, once set,
\* only keeps the fine sweep from starting
NoAngleSkipped ==
    /\ pc = "scan" => ~earlyStop
    /\ \A i \in 1..Len(trace.cands) : trace.cands[i].st # "skipped"
    /\ \A k \in 1..Len(trace.sweeps) :
        \A i \in 1..Len(trace.sweeps[k].cands) : trace.sweeps[k].cands[i].st \in {"acc", "rej"}
    /\ pc = "scan" =>
        \A t \in Threads :
            \A j \in 1..ChunkSize(Len(trace.cands), nthreads, t) :
                LET i == ChunkStart(Len(trace.cands), nthreads, t) + j
                IN  IF j <= pos[t] THEN trace.cands[i].st \in {"acc", "rej"}
                    ELSE trace.cands[i].st = "todo"
    /\ (earlyStop /\ Len(trace.sweeps) = 1) => phase = "coarse" /\ pc # "scan"
NoAngleSkippedWitness ==
    /\ nthreads = 2
    /\ pc = "scan" /\ phase = "fine"
    /\ pos[0] > 0 /\ pos[1] > 0
    /\ BarCandidates(trace.sweeps[1]) # {}
    /\ \A i \in 1..Len(trace.cands) : trace.cands[i].st # "skipped"

\* C26 (as the spec states it): a found result reports a rectangle whose
\* measured occupancy is at least 0.30 and whose aspect ratio is at most 3.0,
\* and the occupancy in telemetry is the occupancy measured for that
\* rectangle, on the fallback path as on the scan path
FoundPassedOccupancyGate ==
    (Returned /\ out.found) =>
        LET r == IF ViaFallback THEN rr ELSE best.tight
        IN  /\ out.occupancy >= min_occupancy_pct
            /\ Max(r.w, r.h) <= max_aspect * Max(1, Min(r.w, r.h))
            /\ \E k \in 1..Len(trace.sweeps) :
                \E i \in Accepted(trace.sweeps[k]) :
                    /\ trace.sweeps[k].cands[i].angle = out.best_angle_deg
                    /\ trace.sweeps[k].cands[i].occ = out.occupancy

\* C27 (as the spec states it): whenever the k-means validator fills its
\* sample matrix it writes exactly as many rows as the matrix has, for the
\* 360 x 360 square and for the square left after the top strip is removed
KmeansFillsExactly ==
    /\ trace.fault # "kmeans"
    /\ (\E k \in 1..Len(trace.gcr.invoked) : trace.gcr.invoked[k].v = 4) =>
        ~trace.gcr.overrun

\* C28 (as the spec states it): the peak prominence and peak separation of the
\* line-peaks validator and the minimum cut separation of the max-gap
\* validator are strictly lower in smallMode than in normal mode, for the
\* default parameters and every profile length a cascade can be run on
SmallModeRelaxes ==
    trace.gcr.invoked # << >> =>
        /\ LinePeakProm(TRUE) < LinePeakProm(trace.gcr.smallMode)
        /\ LinePeakSep(TRUE) < LinePeakSep(trace.gcr.smallMode)
        /\ \A n \in {small_side - 1, warpSize} :
            MaxGapMinSep(TRUE, n) < MaxGapMinSep(trace.gcr.smallMode, n)

\* C29 (as the spec states it): every data row written to the results CSV,
\* for a found marker, for no marker and for an image that could not be read,
\* with saveDebug on or off, has as many comma-separated fields as the header
\* (17), and elapsed_ms is in the field under its header column
RowsMatchHeader ==
    \A k \in 1..Len(csv.rows) :
        LET row == csv.rows[k]
            commas(r) == Cardinality({j \in 1..Len(r) : r[j] = ","})
            before(r, v) ==
                Cardinality({j \in 1..Len(r) : r[j] = "," /\ \E m \in (j + 1)..Len(r) : r[m] = v})
        IN  /\ commas(row) + 1 = 17
            /\ commas(row) = commas(CsvHeader)
            /\ before(row, "elapsed_ms") = before(CsvHeader, "elapsed_ms")

====
